---- MODULE Spec2Model ----
(***************************************************************************)
(* The signal state engine of ChikouAdvancedAlgorithm                      *)
(* (src/ChikouAdvancedAlgorithm.py): the per-bar handler OnFourHourData    *)
(* with its breakout, retest and neutral-reset steps and the trend score.  *)
(*                                                                         *)
(* Units.  Time is counted in consolidator periods of 4 hours, so the      *)
(* 12-hour min_signal_interval is 3.  Prices are counted in minimum price  *)
(* increments, so MinimumPriceVariation is 1.  Order sizes are percent of  *)
(* equity.  The trend score is kept in hundredths.                         *)
(*                                                                         *)
(* Scaling.  The bar counts of the source (displacement 26, the window's   *)
(* 10 spare slots, the 60-bar retest ceiling, neutral_reset_bars 60) are   *)
(* scaled down so that a run covers a breakout, its retest window and its  *)
(* reset; the formulas are stated over the names, not over the numbers.    *)
(***************************************************************************)
EXTENDS Integers, Sequences, FiniteSets, TLC

\* ------------------------------------------------------------------ bounds
MaxTime == 7            \* end time of the last bar delivered
MaxWarmUpTime == 1      \* end time of the last bar delivered in warm-up
MaxPrice == 3           \* prices are 1..MaxPrice ticks
displacement == 1       \* self.displacement (26 in the source)
WindowSpare == 1        \* spare slots of price_history (10 in the source)
MaxWindowSpare == 2     \* most spare slots a window is built with
WindowHorizon == 4      \* last bar end time of the runs on spare slots
RetestCeiling == 3      \* the literal 60 of CheckRetestSignals
DefaultNeutralResetBars == 3   \* self.neutral_reset_bars (60 in the source)

\* ------------------------------------------------------- program constants
NEUTRAL == 0
BULLISH == 1
BEARISH == -1

None == -1              \* Python's None for a bar index or a time

retest_min_delay_bars == 2
min_signal_interval == 3       \* timedelta(hours=12), in 4-hour periods
position_size == 80            \* 0.8 of equity, in percent
MinimumPriceVariation == 1     \* one tick
MinutesPerPeriod == 240        \* timedelta(hours=4)

use_bodies == FALSE
confirm_on_close == TRUE
show_retest_signals == TRUE
use_volume == TRUE
volume_sensitivity == 35       \* 0.35, in percent
volume_cap == 3

W_BIAS == 35
W_TK == 25
W_CH_KIJUN == 20
W_CH_CLOUD == 20

NoVolume == -1                 \* consolidated.Volume is None

\* ------------------------------------------------------------------ inputs
Prices == 1..MaxPrice
Gaps == {1, min_signal_interval}
Volumes == {8}
Quantities == {-1, 0, 1}       \* sign of Portfolio[symbol].Quantity

\* A consolidated bar's prices; the open is read under use_bodies only.
BarPrices ==
    {b \in [Open : Prices, High : Prices, Low : Prices, Close : Prices] :
        /\ b.Low <= b.Close /\ b.Close <= b.High
        /\ b.Open = b.Close}

Min(a, b) == IF a < b THEN a ELSE b
Max(a, b) == IF a > b THEN a ELSE b
Abs(a) == IF a < 0 THEN -a ELSE a

VARIABLES
    IsWarmingUp,              \* host: the warm-up period is running
    clock,                    \* host: end time of the last bar delivered
    ichimoku_ready,           \* self.ichimoku.IsReady
    volume_sma_ready,         \* self.volume_sma.IsReady
    neutral_reset_bars,       \* configuration field
    price_history,            \* RollingWindow, newest first
    active_direction,
    last_breakout_bar,
    last_breakout_direction,
    last_retest_bar,
    last_signal_time,
    trend_score,
    bar_index,
    breakout_signals,
    retest_signals,
    breakout_ref_level,       \* ref_level of the last ProcessBreakoutSignal
    orders,                   \* order requests of the last handler call
    position_read,            \* Portfolio[symbol].Quantity as read by it
    window_capacity,          \* price_history.Size
    score_call,               \* <<data, ind>> of the last CalculateTrendScore
    bar_log,                  \* the last displacement + 1 bars, by bar number
    holdings,                 \* Portfolio[symbol].Quantity (sign), Bitcoin algo
    chikou_momentum,          \* RollingWindow of momenta, Bitcoin algo
    bb,                       \* self.bb: IsReady and the two bands
    ichimoku                  \* self.ichimoku: the two Senkou spans

vars == <<IsWarmingUp, clock, ichimoku_ready, volume_sma_ready,
          neutral_reset_bars, price_history,
          active_direction, last_breakout_bar, last_breakout_direction,
          last_retest_bar, last_signal_time, trend_score, bar_index,
          breakout_signals, retest_signals, breakout_ref_level, orders,
          position_read, window_capacity, score_call, bar_log,
          holdings, chikou_momentum, bb, ichimoku>>

\* The algorithm object as a record, threaded through the handler's steps.
Self ==
    [active_direction |-> active_direction,
     last_breakout_bar |-> last_breakout_bar,
     last_breakout_direction |-> last_breakout_direction,
     last_retest_bar |-> last_retest_bar,
     last_signal_time |-> last_signal_time,
     trend_score |-> trend_score,
     bar_index |-> bar_index,
     breakout_signals |-> breakout_signals,
     retest_signals |-> retest_signals,
     price_history |-> price_history,
     neutral_reset_bars |-> neutral_reset_bars,
     breakout_ref_level |-> breakout_ref_level,
     orders |-> <<>>,
     position_read |-> None,
     score_call |-> score_call]

\* ------------------------------------------------------------------ helpers
WindowSize == displacement + WindowSpare

\* RollingWindow.Add: the newest item is index 0, the oldest is evicted.
RollingWindowAdd(w, x) ==
    SubSeq(<<x>> \o w, 1, Min(Len(w) + 1, window_capacity))

\* RollingWindow indexer, 0-based.
At(w, i) == w[i + 1]

LiquidateAll == [type |-> "LiquidateAll", target |-> 0]
MarketOrder(target) == [type |-> "MarketOrder", target |-> target]

\* data.EndTime.minute
Minute(t) == (t * MinutesPerPeriod) % 60

RefHigh(ref_bar) ==
    IF use_bodies THEN Max(ref_bar.Open, ref_bar.Close) ELSE ref_bar.High

RefLow(ref_bar) ==
    IF use_bodies THEN Min(ref_bar.Open, ref_bar.Close) ELSE ref_bar.Low

\* ------------------------------------------------------------- trend score
\* price_history[self.displacement] with fewer than displacement + 1 bars
ArgumentOutOfRange == -1000000

\* max_possible, in hundredths
MaxPossible ==
    W_BIAS * 100
    + (W_TK + W_CH_KIJUN + W_CH_CLOUD)
      * (100 + ((volume_cap * 100 - 100) * volume_sensitivity) \div 100)

\* Mutant: an average of zero counts as a relative volume at the cap.
VolumeMult_ZeroAverageAtCap(data, ind) ==
    IF use_volume /\ ind.vol_ready
    THEN LET current_vol == IF data.Volume > 0 THEN data.Volume ELSE 0
             rel_vol == IF ind.avg_vol > 0
                        THEN Min((current_vol * 100) \div ind.avg_vol,
                                 volume_cap * 100)
                        ELSE volume_cap * 100
         IN  100 + ((rel_vol - 100) * volume_sensitivity) \div 100
    ELSE 100

\* volume_mult, in hundredths
VolumeMult(data, ind) ==
    IF use_volume /\ ind.vol_ready
    THEN LET current_vol == IF data.Volume > 0 THEN data.Volume ELSE 0
             avg_vol == ind.avg_vol
         IN  IF avg_vol > 0
             THEN LET rel_vol == Min((current_vol * 100) \div avg_vol,
                                     volume_cap * 100)
                  IN  100 + ((rel_vol - 100) * volume_sensitivity) \div 100
             ELSE 100
    ELSE 100

\* Mutant: the relative volume is not capped and the sum is not clamped.
CalculateTrendScore_Unbounded(self, data, ind) ==
    LET chikou == data.Close
        kijun_at_chikou == At(self.price_history, displacement).Close
        score_bias == self.active_direction * W_BIAS
        score_tk == IF ind.tenkan > ind.kijun THEN W_TK
                    ELSE IF ind.tenkan < ind.kijun THEN -W_TK ELSE 0
        score_ch_kijun ==
            IF chikou > kijun_at_chikou THEN W_CH_KIJUN
            ELSE IF chikou < kijun_at_chikou THEN -W_CH_KIJUN ELSE 0
        score_ch_cloud ==
            IF chikou > Max(ind.senkou_a, ind.senkou_b) THEN W_CH_CLOUD
            ELSE IF chikou < Min(ind.senkou_a, ind.senkou_b) THEN -W_CH_CLOUD
            ELSE 0
        volume_mult ==
            IF use_volume /\ ind.vol_ready /\ ind.avg_vol > 0
            THEN 100 + (((Max(data.Volume, 0) * 100) \div ind.avg_vol - 100)
                        * volume_sensitivity) \div 100
            ELSE 100
    IN  score_bias * 100
        + (score_tk + score_ch_kijun + score_ch_cloud) * volume_mult

CalculateTrendScore(self, data, ind) ==
    LET chikou == data.Close
    IN  IF Len(self.price_history) >= displacement
        THEN IF Len(self.price_history) < displacement + 1
             THEN ArgumentOutOfRange
             ELSE
               LET kijun_at_chikou == At(self.price_history, displacement).Close
                   cloud_top_at_chikou == Max(ind.senkou_a, ind.senkou_b)
                   cloud_bottom_at_chikou == Min(ind.senkou_a, ind.senkou_b)
                   score_bias == self.active_direction * W_BIAS
                   score_tk == IF ind.tenkan > ind.kijun THEN W_TK
                               ELSE IF ind.tenkan < ind.kijun THEN -W_TK ELSE 0
                   score_ch_kijun ==
                       IF chikou > kijun_at_chikou THEN W_CH_KIJUN
                       ELSE IF chikou < kijun_at_chikou THEN -W_CH_KIJUN ELSE 0
                   score_ch_cloud ==
                       IF chikou > cloud_top_at_chikou THEN W_CH_CLOUD
                       ELSE IF chikou < cloud_bottom_at_chikou THEN -W_CH_CLOUD
                       ELSE 0
                   directional_score ==
                       (score_tk + score_ch_kijun + score_ch_cloud)
                       * VolumeMult(data, ind)
                   final_score == score_bias * 100 + directional_score
               IN  Max(-MaxPossible, Min(MaxPossible, final_score))
        ELSE 0

\* ---------------------------------------------------------------- breakout
\* Mutant: the entry order is placed without liquidating first.
ProcessBreakoutSignal_NoLiquidate(self, direction, data, price, ref_level) ==
    [self EXCEPT
        !.active_direction = direction,
        !.last_breakout_direction = direction,
        !.last_breakout_bar = self.bar_index,
        !.last_signal_time = data.EndTime,
        !.breakout_signals = self.breakout_signals + 1,
        !.breakout_ref_level = ref_level,
        !.orders =
            IF direction = BULLISH
            THEN self.orders \o <<MarketOrder(position_size)>>
            ELSE IF direction = BEARISH
            THEN self.orders \o <<MarketOrder(-position_size)>>
            ELSE self.orders]

ProcessBreakoutSignal(self, direction, data, price, ref_level) ==
    [self EXCEPT
        !.active_direction = direction,
        !.last_breakout_direction = direction,
        !.last_breakout_bar = self.bar_index,
        !.last_signal_time = data.EndTime,
        !.breakout_signals = self.breakout_signals + 1,
        !.breakout_ref_level = ref_level,
        !.orders =
            IF direction = BULLISH
            THEN self.orders \o <<LiquidateAll, MarketOrder(position_size)>>
            ELSE IF direction = BEARISH
            THEN self.orders \o <<LiquidateAll, MarketOrder(-position_size)>>
            ELSE self.orders]

\* Mutant: a close at the reference level counts as a breakout.
CheckBreakoutSignals_AtLevel(self, data, current_price, ref_high, ref_low) ==
    IF /\ self.last_signal_time # None
       /\ data.EndTime - self.last_signal_time < min_signal_interval
    THEN self
    ELSE IF current_price >= ref_high /\ self.active_direction # BULLISH
    THEN IF ~confirm_on_close \/ Minute(data.EndTime) = 0
         THEN ProcessBreakoutSignal(self, BULLISH, data, current_price, ref_high)
         ELSE self
    ELSE IF current_price <= ref_low /\ self.active_direction # BEARISH
    THEN IF ~confirm_on_close \/ Minute(data.EndTime) = 0
         THEN ProcessBreakoutSignal(self, BEARISH, data, current_price, ref_low)
         ELSE self
    ELSE self

\* Mutant: a breakout fires again in the direction already active.
CheckBreakoutSignals_NoDirectionGuard(self, data, current_price, ref_high, ref_low) ==
    IF /\ self.last_signal_time # None
       /\ data.EndTime - self.last_signal_time < min_signal_interval
    THEN self
    ELSE IF current_price > ref_high
    THEN IF ~confirm_on_close \/ Minute(data.EndTime) = 0
         THEN ProcessBreakoutSignal(self, BULLISH, data, current_price, ref_high)
         ELSE self
    ELSE IF current_price < ref_low
    THEN IF ~confirm_on_close \/ Minute(data.EndTime) = 0
         THEN ProcessBreakoutSignal(self, BEARISH, data, current_price, ref_low)
         ELSE self
    ELSE self

\* Mutant: the cooldown gate is counted one period short.
CheckBreakoutSignals_ShortCooldown(self, data, current_price, ref_high, ref_low) ==
    IF /\ self.last_signal_time # None
       /\ data.EndTime - self.last_signal_time < min_signal_interval - 1
    THEN self
    ELSE IF current_price > ref_high /\ self.active_direction # BULLISH
    THEN IF ~confirm_on_close \/ Minute(data.EndTime) = 0
         THEN ProcessBreakoutSignal(self, BULLISH, data, current_price, ref_high)
         ELSE self
    ELSE IF current_price < ref_low /\ self.active_direction # BEARISH
    THEN IF ~confirm_on_close \/ Minute(data.EndTime) = 0
         THEN ProcessBreakoutSignal(self, BEARISH, data, current_price, ref_low)
         ELSE self
    ELSE self

CheckBreakoutSignals(self, data, current_price, ref_high, ref_low) ==
    IF /\ self.last_signal_time # None
       /\ data.EndTime - self.last_signal_time < min_signal_interval
    THEN self
    ELSE IF current_price > ref_high /\ self.active_direction # BULLISH
    THEN IF ~confirm_on_close \/ Minute(data.EndTime) = 0
         THEN ProcessBreakoutSignal(self, BULLISH, data, current_price, ref_high)
         ELSE self
    ELSE IF current_price < ref_low /\ self.active_direction # BEARISH
    THEN IF ~confirm_on_close \/ Minute(data.EndTime) = 0
         THEN ProcessBreakoutSignal(self, BEARISH, data, current_price, ref_low)
         ELSE self
    ELSE self

\* ------------------------------------------------------------------ retest
\* Mutant: the retest entry is of full size.
ProcessRetestSignal_FullSize(self, direction, data, quantity) ==
    LET current_position == quantity
        s == [self EXCEPT !.last_retest_bar = self.bar_index,
                          !.retest_signals = self.retest_signals + 1,
                          !.position_read = quantity]
    IN  IF direction = BULLISH /\ current_position > 0 THEN s
        ELSE IF direction = BEARISH /\ current_position < 0 THEN s
        ELSE IF direction = BULLISH
        THEN [s EXCEPT !.orders = s.orders \o <<MarketOrder(position_size)>>]
        ELSE IF direction = BEARISH
        THEN [s EXCEPT !.orders = s.orders \o <<MarketOrder(-position_size)>>]
        ELSE s

ProcessRetestSignal(self, direction, data, quantity) ==
    LET current_position == quantity
        s == [self EXCEPT !.last_retest_bar = self.bar_index,
                          !.retest_signals = self.retest_signals + 1,
                          !.position_read = quantity]
    IN  IF direction = BULLISH /\ current_position > 0 THEN s
        ELSE IF direction = BEARISH /\ current_position < 0 THEN s
        ELSE IF direction = BULLISH
        THEN [s EXCEPT !.orders =
                 s.orders \o <<MarketOrder(position_size \div 2)>>]
        ELSE IF direction = BEARISH
        THEN [s EXCEPT !.orders =
                 s.orders \o <<MarketOrder(-(position_size \div 2))>>]
        ELSE s

\* Mutant: the one-retest-per-breakout guard is missing.
CheckRetestSignals_NoOnceGuard(self, data, current_price, ref_high, ref_low, quantity) ==
    IF \/ self.last_breakout_bar = None
       \/ self.last_breakout_direction = NEUTRAL
    THEN self
    ELSE
      LET bars_since_breakout == self.bar_index - self.last_breakout_bar
          epsilon == MinimumPriceVariation
      IN  IF \/ bars_since_breakout < retest_min_delay_bars
             \/ bars_since_breakout > RetestCeiling
          THEN self
          ELSE IF /\ self.last_breakout_direction = BULLISH
                  /\ data.Low <= ref_high + epsilon
                  /\ current_price >= ref_high
          THEN ProcessRetestSignal(self, BULLISH, data, quantity)
          ELSE IF /\ self.last_breakout_direction = BEARISH
                  /\ data.High >= ref_low - epsilon
                  /\ current_price <= ref_low
          THEN ProcessRetestSignal(self, BEARISH, data, quantity)
          ELSE self

\* Mutant: the retest window is one bar too wide at both ends.
CheckRetestSignals_WideWindow(self, data, current_price, ref_high, ref_low, quantity) ==
    IF \/ self.last_breakout_bar = None
       \/ self.last_breakout_direction = NEUTRAL
    THEN self
    ELSE
      LET bars_since_breakout == self.bar_index - self.last_breakout_bar
          epsilon == MinimumPriceVariation
      IN  IF \/ bars_since_breakout < retest_min_delay_bars - 1
             \/ bars_since_breakout > RetestCeiling + 1
          THEN self
          ELSE IF /\ self.last_retest_bar # None
                  /\ self.last_retest_bar >= self.last_breakout_bar
          THEN self
          ELSE IF /\ self.last_breakout_direction = BULLISH
                  /\ data.Low <= ref_high + epsilon
                  /\ current_price >= ref_high
          THEN ProcessRetestSignal(self, BULLISH, data, quantity)
          ELSE IF /\ self.last_breakout_direction = BEARISH
                  /\ data.High >= ref_low - epsilon
                  /\ current_price <= ref_low
          THEN ProcessRetestSignal(self, BEARISH, data, quantity)
          ELSE self

CheckRetestSignals(self, data, current_price, ref_high, ref_low, quantity) ==
    IF \/ self.last_breakout_bar = None
       \/ self.last_breakout_direction = NEUTRAL
    THEN self
    ELSE
      LET bars_since_breakout == self.bar_index - self.last_breakout_bar
          epsilon == MinimumPriceVariation
      IN  IF \/ bars_since_breakout < retest_min_delay_bars
             \/ bars_since_breakout > RetestCeiling
          THEN self
          ELSE IF /\ self.last_retest_bar # None
                  /\ self.last_retest_bar >= self.last_breakout_bar
          THEN self
          ELSE IF /\ self.last_breakout_direction = BULLISH
                  /\ data.Low <= ref_high + epsilon
                  /\ current_price >= ref_high
          THEN ProcessRetestSignal(self, BULLISH, data, quantity)
          ELSE IF /\ self.last_breakout_direction = BEARISH
                  /\ data.High >= ref_low - epsilon
                  /\ current_price <= ref_low
          THEN ProcessRetestSignal(self, BEARISH, data, quantity)
          ELSE self

\* ----------------------------------------------------------- neutral reset
\* Mutant: the reset fires at the threshold instead of past it.
CheckNeutralReset_AtThreshold(self) ==
    IF self.active_direction # NEUTRAL /\ self.last_breakout_bar # None
    THEN LET bars_since_breakout == self.bar_index - self.last_breakout_bar
         IN  IF bars_since_breakout >= self.neutral_reset_bars
             THEN [self EXCEPT !.active_direction = NEUTRAL]
             ELSE self
    ELSE self

\* Mutant: the reset also forgets the direction of the last breakout.
CheckNeutralReset_ClearsDirection(self) ==
    IF self.active_direction # NEUTRAL /\ self.last_breakout_bar # None
    THEN LET bars_since_breakout == self.bar_index - self.last_breakout_bar
         IN  IF bars_since_breakout > self.neutral_reset_bars
             THEN [self EXCEPT !.active_direction = NEUTRAL,
                               !.last_breakout_direction = NEUTRAL]
             ELSE self
    ELSE self

\* Mutant: the reset is not guarded on the direction and records its bar as
\* the bar to count from.
CheckNeutralReset_Rearms(self) ==
    IF self.last_breakout_bar # None
    THEN LET bars_since_breakout == self.bar_index - self.last_breakout_bar
         IN  IF bars_since_breakout > self.neutral_reset_bars
             THEN [self EXCEPT !.active_direction = NEUTRAL,
                               !.last_breakout_bar = self.bar_index]
             ELSE self
    ELSE self

CheckNeutralReset(self) ==
    IF self.active_direction # NEUTRAL /\ self.last_breakout_bar # None
    THEN LET bars_since_breakout == self.bar_index - self.last_breakout_bar
         IN  IF bars_since_breakout > self.neutral_reset_bars
             THEN [self EXCEPT !.active_direction = NEUTRAL]
             ELSE self
    ELSE self

\* ------------------------------------------------------------- the handler
\* Mutant: the bar is evaluated as soon as the window holds the reference
\* bar, whether or not the Ichimoku indicator is ready.
ProcessSignals_IgnoresIchimoku(self, data, ind, quantity) ==
    IF Len(self.price_history) < displacement + 1
    THEN self
    ELSE
      LET ref_bar == At(self.price_history, displacement)
          current_price == data.Close
          s1 == [self EXCEPT
                    !.trend_score = CalculateTrendScore(self, data, ind),
                    !.score_call = <<data, ind>>]
          s2 == CheckBreakoutSignals(s1, data, current_price,
                                     RefHigh(ref_bar), RefLow(ref_bar))
          s3 == IF show_retest_signals
                THEN CheckRetestSignals(s2, data, current_price,
                                        RefHigh(ref_bar), RefLow(ref_bar),
                                        quantity)
                ELSE s2
      IN  CheckNeutralReset(s3)

\* Mutant: the trend score is computed after the breakout check.
ProcessSignals_ScoresAfterBreakout(self, data, ind, quantity) ==
    IF ~ind.ichimoku_ready \/ Len(self.price_history) < displacement + 1
    THEN self
    ELSE
      LET ref_bar == At(self.price_history, displacement)
          current_price == data.Close
          s1 == CheckBreakoutSignals(self, data, current_price,
                                     RefHigh(ref_bar), RefLow(ref_bar))
          s2 == [s1 EXCEPT
                    !.trend_score = CalculateTrendScore(s1, data, ind),
                    !.score_call = <<data, ind>>]
          s3 == IF show_retest_signals
                THEN CheckRetestSignals(s2, data, current_price,
                                        RefHigh(ref_bar), RefLow(ref_bar),
                                        quantity)
                ELSE s2
      IN  CheckNeutralReset(s3)

\* Mutant: the reference is the oldest bar the window holds.
ProcessSignals_OldestBar(self, data, ind, quantity) ==
    IF ~ind.ichimoku_ready \/ Len(self.price_history) < displacement + 1
    THEN self
    ELSE
      LET ref_bar == At(self.price_history, Len(self.price_history) - 1)
          current_price == data.Close
          s1 == [self EXCEPT
                    !.trend_score = CalculateTrendScore(self, data, ind),
                    !.score_call = <<data, ind>>]
          s2 == CheckBreakoutSignals(s1, data, current_price,
                                     RefHigh(ref_bar), RefLow(ref_bar))
          s3 == IF show_retest_signals
                THEN CheckRetestSignals(s2, data, current_price,
                                        RefHigh(ref_bar), RefLow(ref_bar),
                                        quantity)
                ELSE s2
      IN  CheckNeutralReset(s3)

\* The steps of OnFourHourData after the indicator updates.
ProcessSignals(self, data, ind, quantity) ==
    IF ~ind.ichimoku_ready \/ Len(self.price_history) < displacement + 1
    THEN self
    ELSE
      LET ref_bar == At(self.price_history, displacement)
          ref_high == RefHigh(ref_bar)
          ref_low == RefLow(ref_bar)
          current_price == data.Close
          s1 == [self EXCEPT
                    !.trend_score = CalculateTrendScore(self, data, ind),
                    !.score_call = <<data, ind>>]
          s2 == CheckBreakoutSignals(s1, data, current_price, ref_high, ref_low)
          s3 == IF show_retest_signals
                THEN CheckRetestSignals(s2, data, current_price, ref_high,
                                        ref_low, quantity)
                ELSE s2
      IN  CheckNeutralReset(s3)

Commit(s) ==
    /\ price_history' = s.price_history
    /\ active_direction' = s.active_direction
    /\ last_breakout_bar' = s.last_breakout_bar
    /\ last_breakout_direction' = s.last_breakout_direction
    /\ last_retest_bar' = s.last_retest_bar
    /\ last_signal_time' = s.last_signal_time
    /\ trend_score' = s.trend_score
    /\ bar_index' = s.bar_index
    /\ breakout_signals' = s.breakout_signals
    /\ retest_signals' = s.retest_signals
    /\ breakout_ref_level' = s.breakout_ref_level
    /\ orders' = s.orders
    /\ position_read' = s.position_read
    /\ score_call' = s.score_call

BarOf(p, t, v) ==
    [Open |-> p.Open, High |-> p.High, Low |-> p.Low, Close |-> p.Close,
     Volume |-> v, EndTime |-> t]

StoredBar(data) ==
    [Open |-> data.Open, High |-> data.High, Low |-> data.Low,
     Close |-> data.Close]

\* The bars delivered outside warm-up, kept by their number (1, 2, ...) for
\* as long as one of them can be the bar displacement periods back.
LogBar(log, n, bar) ==
    [i \in Max(1, n - displacement)..n |-> IF i = n THEN bar ELSE log[i]]

\* One consolidated bar delivered to the handler.  ind is what the host's
\* indicators hold once the handler has updated them with the bar.
OnFourHourData(data, ind, quantity) ==
    /\ clock' = data.EndTime
    /\ UNCHANGED <<IsWarmingUp, neutral_reset_bars, window_capacity,
                   holdings, chikou_momentum, bb, ichimoku>>
    /\ IF IsWarmingUp
       THEN /\ Commit(Self)
            /\ UNCHANGED <<ichimoku_ready, volume_sma_ready, bar_log>>
       ELSE /\ ichimoku_ready' = ind.ichimoku_ready
            /\ volume_sma_ready' = ind.vol_ready
            /\ bar_log' = LogBar(bar_log, bar_index + 1, StoredBar(data))
            /\ Commit(ProcessSignals(
                   [Self EXCEPT
                       !.bar_index = bar_index + 1,
                       !.price_history =
                           RollingWindowAdd(price_history, StoredBar(data))],
                   data, ind, quantity))

\* The states the indicators can be in after an update with this bar.
IndicatorStates(v) ==
    {i \in [tenkan : {3}, kijun : {2}, senkou_a : {2}, senkou_b : {2},
            avg_vol : {2}, ichimoku_ready : BOOLEAN, vol_ready : BOOLEAN] :
        /\ ichimoku_ready => i.ichimoku_ready
        /\ volume_sma_ready => i.vol_ready
        /\ i.ichimoku_ready => i.vol_ready
        /\ (v = NoVolume) => (i.vol_ready = volume_sma_ready)}

\* The signs the position can have: flat until an order is placed, then
\* whatever the fills of the orders placed so far have left.
Positions ==
    IF breakout_signals = 0 THEN {0}
    ELSE IF breakout_signals = 1 THEN {0, last_breakout_direction}
    ELSE Quantities

\* The handler reads the position in ProcessRetestSignal only: the bars on
\* which no retest fires need one value of it.
ReadsPosition(data, ind) ==
    /\ ~IsWarmingUp
    /\ ProcessSignals(
           [Self EXCEPT
               !.bar_index = bar_index + 1,
               !.price_history =
                   RollingWindowAdd(price_history, StoredBar(data))],
           data, ind, 0).position_read # None

PositionsRead(data, ind) ==
    IF ReadsPosition(data, ind) THEN Positions ELSE {0}

\* The host ends the warm-up period.
EndWarmUp ==
    /\ IsWarmingUp
    /\ IsWarmingUp' = FALSE
    /\ UNCHANGED <<clock, ichimoku_ready, volume_sma_ready,
                   neutral_reset_bars, price_history,
                   active_direction, last_breakout_bar,
                   last_breakout_direction, last_retest_bar, last_signal_time,
                   trend_score, bar_index, breakout_signals, retest_signals,
                   breakout_ref_level, orders, position_read, score_call,
                   bar_log, window_capacity, holdings, chikou_momentum,
                   bb, ichimoku>>

\* The fields of ChikouBitcoinBreakoutAlgorithm after its Initialize; the
\* indicators hold no value yet.
InitBitcoinFields ==
    /\ holdings = 0
    /\ chikou_momentum = <<>>
    /\ bb = [IsReady |-> FALSE, UpperBand |-> 0, LowerBand |-> 0]
    /\ ichimoku = [SenkouA |-> 0, SenkouB |-> 0]

InitEngine ==
    /\ InitBitcoinFields
    /\ IsWarmingUp = TRUE
    /\ clock = 0
    /\ ichimoku_ready = FALSE
    /\ volume_sma_ready = FALSE
    /\ price_history = <<>>
    /\ active_direction = NEUTRAL
    /\ last_breakout_bar = None
    /\ last_breakout_direction = NEUTRAL
    /\ last_retest_bar = None
    /\ last_signal_time = None
    /\ trend_score = 0
    /\ bar_index = 0
    /\ breakout_signals = 0
    /\ retest_signals = 0
    /\ breakout_ref_level = None
    /\ orders = <<>>
    /\ position_read = None
    /\ score_call = <<>>
    /\ bar_log = <<>>

Init ==
    /\ InitEngine
    /\ neutral_reset_bars = DefaultNeutralResetBars
    /\ window_capacity = WindowSize

\* The host delivers one bar ending no later than limit.
BarUpTo(limit) ==
    \E p \in BarPrices, g \in Gaps, v \in Volumes :
        /\ clock + g <= (IF IsWarmingUp THEN MaxWarmUpTime ELSE limit)
        /\ \E ind \in IndicatorStates(v) :
             \E q \in PositionsRead(BarOf(p, clock + g, v), ind) :
               OnFourHourData(BarOf(p, clock + g, v), ind, q)

Bar == BarUpTo(MaxTime)

Next ==
    \/ Bar
    \/ EndWarmUp

Spec == Init /\ [][Next]_vars

\* The same engine with the neutral_reset_bars of the configuration surface
\* drawn from the values around the retest ceiling.
NeutralResetChoices == {1, RetestCeiling - 1, RetestCeiling, RetestCeiling + 1}

InitConfig ==
    /\ InitEngine
    /\ neutral_reset_bars \in NeutralResetChoices
    /\ window_capacity = WindowSize

SpecConfig == InitConfig /\ [][Next]_vars

\* The same engine over the first bars of a run, its window built with
\* exactly displacement + 1 slots or with spare ones.
WindowCapacities == {displacement + 1, displacement + MaxWindowSpare}

InitWindow ==
    /\ InitEngine
    /\ neutral_reset_bars = DefaultNeutralResetBars
    /\ window_capacity \in WindowCapacities

BarWindow == BarUpTo(WindowHorizon)

NextWindow ==
    \/ BarWindow
    \/ EndWarmUp

SpecWindow == InitWindow /\ [][NextWindow]_vars

\* ------------------------------------------- the scoring function alone
\* CalculateTrendScore called once on an engine state, over the volumes and
\* indicator values the host can deliver with the newest bar of the window;
\* the indicators have been updated with that bar before the call.
ScoreVolumes == {NoVolume, 0, 2, 8, 40}

ScoreIndicators ==
    [tenkan : {1, 2, 3}, kijun : {2}, senkou_a : {1, 3}, senkou_b : {2},
     avg_vol : {0, 2}, ichimoku_ready : {TRUE}, vol_ready : BOOLEAN]

\* The rolling windows holding a number of bars in depths.
ScoreWindows(depths) == UNION {[1..n -> BarPrices] : n \in depths}

\* Mutant: the scoring function also puts the bar into the window.
ScoreCall_AddsBar(data, ind) ==
    /\ score_call = <<>>
    /\ trend_score' = CalculateTrendScore(Self, data, ind)
    /\ score_call' = <<data, ind>>
    /\ price_history' = RollingWindowAdd(price_history, StoredBar(data))
    /\ UNCHANGED <<IsWarmingUp, clock, ichimoku_ready, volume_sma_ready,
                   neutral_reset_bars, active_direction,
                   last_breakout_bar, last_breakout_direction,
                   last_retest_bar, last_signal_time, bar_index,
                   breakout_signals, retest_signals, breakout_ref_level,
                   orders, position_read, bar_log, window_capacity,
                   holdings, chikou_momentum, bb, ichimoku>>

\* self.trend_score = self.CalculateTrendScore(consolidated), nothing else.
ScoreCall(data, ind) ==
    /\ score_call = <<>>
    /\ trend_score' = CalculateTrendScore(Self, data, ind)
    /\ score_call' = <<data, ind>>
    /\ UNCHANGED <<IsWarmingUp, clock, ichimoku_ready, volume_sma_ready,
                   neutral_reset_bars, price_history, active_direction,
                   last_breakout_bar, last_breakout_direction,
                   last_retest_bar, last_signal_time, bar_index,
                   breakout_signals, retest_signals, breakout_ref_level,
                   orders, position_read, bar_log, window_capacity,
                   holdings, chikou_momentum, bb, ichimoku>>

\* An engine after warm-up whose window holds a number of bars in depths, in
\* any direction a breakout on the newest bar can have left it.
InitScoreDepths(depths) ==
    /\ InitBitcoinFields
    /\ IsWarmingUp = FALSE
    /\ clock = 0
    /\ ichimoku_ready = TRUE
    /\ volume_sma_ready \in BOOLEAN
    /\ neutral_reset_bars = DefaultNeutralResetBars
    /\ window_capacity = WindowSize
    /\ price_history \in ScoreWindows(depths)
    /\ bar_index = Len(price_history)
    /\ bar_log = [i \in Max(1, bar_index - displacement)..bar_index |->
                     price_history[bar_index + 1 - i]]
    /\ active_direction \in
           IF Len(price_history) >= displacement + 1
           THEN {NEUTRAL, BULLISH, BEARISH} ELSE {NEUTRAL}
    /\ last_breakout_direction = active_direction
    /\ last_breakout_bar =
           IF active_direction = NEUTRAL THEN None ELSE bar_index
    /\ last_signal_time = IF active_direction = NEUTRAL THEN None ELSE clock
    /\ breakout_signals = IF active_direction = NEUTRAL THEN 0 ELSE 1
    /\ breakout_ref_level = None
    /\ last_retest_bar = None
    /\ retest_signals = 0
    /\ trend_score = 0
    /\ orders = <<>>
    /\ position_read = None
    /\ score_call = <<>>

\* The handler's call: the window holds the reference bar, data is its
\* newest bar.
InitScore == InitScoreDepths((displacement + 1)..WindowSize)

\* A direct call at any depth of the window, the underfilled ones included.
InitScoreAnyDepth == InitScoreDepths(0..WindowSize)

NextScore ==
    \E p \in BarPrices, v \in ScoreVolumes, ind \in ScoreIndicators :
        /\ price_history # <<>> => p = At(price_history, 0)
        /\ ind.vol_ready = volume_sma_ready
        /\ ScoreCall(BarOf(p, clock, v), ind)

SpecScore == InitScore /\ [][NextScore]_vars

SpecScoreAnyDepth == InitScoreAnyDepth /\ [][NextScore]_vars

\* ------------------------------------- ChikouBitcoinBreakoutAlgorithm
\* The second algorithm of the repository.  Momenta are in percent, rounded
\* down; prices in ticks; time in four-hour periods.
chikou_period == 1                  \* 26 in the source
bb_period == 1                      \* 20 in the source
Bitcoin_position_size == 80         \* 0.8
Bitcoin_min_signal_interval == 3    \* timedelta(hours=12)

\* The bands the Bollinger indicator holds and the spans of the cloud.
UpperBandValue == 60
LowerBandValue == -40
SenkouValues == {1, 2, 3}

\* The algorithm object as CheckForSignals sees it.
BitcoinSelf ==
    [last_signal_time |-> last_signal_time,
     holdings |-> holdings,
     chikou_momentum |-> chikou_momentum,
     bb |-> bb,
     ichimoku |-> ichimoku,
     ichimoku_ready |-> ichimoku_ready,
     orders |-> <<>>]

\* (current_price - historical_price) / historical_price * 100
Momentum(current_price, historical_price) ==
    ((current_price - historical_price) * 100) \div historical_price

\* chikou_momentum.Add on a window of bb_period + 1 slots
MomentumAdd(w, x) == SubSeq(<<x>> \o w, 1, Min(Len(w) + 1, bb_period + 1))

\* self.LiquidateAll(): the request is recorded and the position closed.
Liquidated(self) ==
    [self EXCEPT !.orders = Append(self.orders, LiquidateAll),
                 !.holdings = 0]

CheckExitConditions(self, data, current_price, cloud_top, cloud_bottom) ==
    IF self.holdings > 0 /\ current_price < cloud_top
    THEN Liquidated(self)
    ELSE IF self.holdings < 0 /\ current_price > cloud_bottom
         THEN Liquidated(self)
         ELSE self

\* An entry: liquidate, order position_size of the portfolio (the order
\* fills or not), stamp the signal time.
BitcoinEntry(self, data, sign, filled) ==
    [Liquidated(self) EXCEPT
        !.orders = <<LiquidateAll, MarketOrder(sign * Bitcoin_position_size)>>,
        !.holdings = IF filled THEN sign ELSE 0,
        !.last_signal_time = data.EndTime]

\* Mutant: the cooldown gates the entries only, exits are checked on
\* every ready bar.
CheckForSignals_ExitsInCooldown(self, data, filled) ==
    IF \/ ~self.bb.IsReady
       \/ ~self.ichimoku_ready
       \/ Len(self.chikou_momentum) < 2
    THEN self
    ELSE
      LET current_price == data.Close
          current_momentum == self.chikou_momentum[1]
          previous_momentum == self.chikou_momentum[2]
          cloud_top == Max(self.ichimoku.SenkouA, self.ichimoku.SenkouB)
          cloud_bottom == Min(self.ichimoku.SenkouA, self.ichimoku.SenkouB)
          upper_band == self.bb.UpperBand
          lower_band == self.bb.LowerBand
          cooling == /\ self.last_signal_time # None
                     /\ data.EndTime - self.last_signal_time
                          < Bitcoin_min_signal_interval
      IN  IF /\ ~cooling
             /\ previous_momentum <= upper_band
             /\ current_momentum > upper_band
             /\ current_price > cloud_top /\ self.holdings <= 0
          THEN BitcoinEntry(self, data, 1, filled)
          ELSE IF /\ ~cooling
                  /\ previous_momentum >= lower_band
                  /\ current_momentum < lower_band
                  /\ current_price < cloud_bottom /\ self.holdings >= 0
               THEN BitcoinEntry(self, data, -1, filled)
               ELSE IF self.holdings # 0
                    THEN CheckExitConditions(self, data, current_price,
                                             cloud_top, cloud_bottom)
                    ELSE self

CheckForSignals(self, data, filled) ==
    IF \/ ~self.bb.IsReady
       \/ ~self.ichimoku_ready
       \/ Len(self.chikou_momentum) < 2
       \/ /\ self.last_signal_time # None
          /\ data.EndTime - self.last_signal_time
               < Bitcoin_min_signal_interval
    THEN self
    ELSE
      LET current_price == data.Close
          current_momentum == self.chikou_momentum[1]
          previous_momentum == self.chikou_momentum[2]
          cloud_top == Max(self.ichimoku.SenkouA, self.ichimoku.SenkouB)
          cloud_bottom == Min(self.ichimoku.SenkouA, self.ichimoku.SenkouB)
          upper_band == self.bb.UpperBand
          lower_band == self.bb.LowerBand
      IN  IF /\ previous_momentum <= upper_band
             /\ current_momentum > upper_band
             /\ current_price > cloud_top /\ self.holdings <= 0
          THEN BitcoinEntry(self, data, 1, filled)
          ELSE IF /\ previous_momentum >= lower_band
                  /\ current_momentum < lower_band
                  /\ current_price < cloud_bottom /\ self.holdings >= 0
               THEN BitcoinEntry(self, data, -1, filled)
               ELSE IF self.holdings # 0
                    THEN CheckExitConditions(self, data, current_price,
                                             cloud_top, cloud_bottom)
                    ELSE self

\* What the two indicators can hold after an update with a bar; an
\* indicator that is ready stays ready.
BitcoinIndicatorStates ==
    {i \in [bb : [IsReady : BOOLEAN, UpperBand : {UpperBandValue},
                  LowerBand : {LowerBandValue}],
            ichimoku : [SenkouA : SenkouValues, SenkouB : {2}],
            ichimoku_ready : BOOLEAN] :
        /\ bb.IsReady => i.bb.IsReady
        /\ ichimoku_ready => i.ichimoku_ready}

\* OnFourHourData of ChikouBitcoinBreakoutAlgorithm.
Bitcoin_OnFourHourData(data, ind, filled) ==
    /\ clock' = data.EndTime
    /\ UNCHANGED <<IsWarmingUp, window_capacity, volume_sma_ready,
                   neutral_reset_bars, active_direction, last_breakout_bar,
                   last_breakout_direction, last_retest_bar, trend_score,
                   bar_index, breakout_signals, retest_signals,
                   breakout_ref_level, position_read, score_call, bar_log>>
    /\ IF IsWarmingUp
       THEN /\ orders' = <<>>
            /\ UNCHANGED <<price_history, chikou_momentum, bb, ichimoku,
                           ichimoku_ready, holdings, last_signal_time>>
       ELSE LET history == RollingWindowAdd(price_history, data.Close)
                full == Len(history) >= chikou_period + 1
                momenta ==
                    IF full
                    THEN MomentumAdd(chikou_momentum,
                                     Momentum(history[1],
                                              history[chikou_period + 1]))
                    ELSE chikou_momentum
                s == CheckForSignals(
                         [BitcoinSelf EXCEPT
                             !.chikou_momentum = momenta,
                             !.bb = IF full THEN ind.bb ELSE bb,
                             !.ichimoku = ind.ichimoku,
                             !.ichimoku_ready = ind.ichimoku_ready],
                         data, filled)
            IN  /\ price_history' = history
                /\ chikou_momentum' = s.chikou_momentum
                /\ bb' = s.bb
                /\ ichimoku' = s.ichimoku
                /\ ichimoku_ready' = s.ichimoku_ready
                /\ holdings' = s.holdings
                /\ last_signal_time' = s.last_signal_time
                /\ orders' = s.orders

InitBitcoin ==
    /\ InitEngine
    /\ neutral_reset_bars = DefaultNeutralResetBars
    /\ window_capacity = chikou_period + 1

BitcoinBar ==
    \E close \in Prices, g \in Gaps, ind \in BitcoinIndicatorStates,
       filled \in BOOLEAN :
        /\ clock + g <= (IF IsWarmingUp THEN MaxWarmUpTime ELSE MaxTime)
        /\ Bitcoin_OnFourHourData([Close |-> close, EndTime |-> clock + g],
                                  ind, filled)

NextBitcoin ==
    \/ BitcoinBar
    \/ EndWarmUp

SpecBitcoin == InitBitcoin /\ [][NextBitcoin]_vars

\* --------------------------------------------------- what a step has done
\* A bar was processed (delivered outside warm-up).
BarStep == bar_index' = bar_index + 1

\* After a processed bar: the bar itself and the bar displacement back.
HasReference == Len(price_history) >= displacement + 1
Current == At(price_history, 0)
Reference == At(price_history, displacement)

CrossesUp == HasReference /\ Current.Close > RefHigh(Reference)
CrossesDown == HasReference /\ Current.Close < RefLow(Reference)

BreakoutFired == breakout_signals' # breakout_signals
RetestFired == retest_signals' # retest_signals

BarsSinceBreakout == bar_index - last_breakout_bar

\* The latest processed bar is the one a breakout / a retest fired on.
BreakoutOnThisBar == last_breakout_bar # None /\ last_breakout_bar = bar_index
RetestOnThisBar == last_retest_bar # None /\ last_retest_bar = bar_index

NoSignalYet ==
    /\ active_direction = NEUTRAL
    /\ last_breakout_bar = None
    /\ breakout_signals = 0
    /\ retest_signals = 0

IsLiquidate(o) == o.type = "LiquidateAll"

\* ------------------------------------------------------------------ claims

\* C1: as long as no processed bar closes strictly above the reference high
\* or strictly below the reference low (reference = the bar displacement back),
\* active_direction stays NEUTRAL, no breakout or retest is counted and no
\* order is emitted.
C1_NoCrossNoSignal ==
    [][(NoSignalYet /\ ~(BarStep /\ (CrossesUp' \/ CrossesDown')))
         => (NoSignalYet' /\ orders' = <<>>)]_vars

\* C1 witness: an evaluated bar that did not cross, nothing having fired.
C1_Witness ==
    /\ ichimoku_ready /\ HasReference /\ bar_index > displacement + 1
    /\ ~CrossesUp /\ ~CrossesDown
    /\ Current.Close = RefHigh(Reference)
    /\ NoSignalYet

\* C2: active_direction changes only by the table: to BULLISH only on a
\* bullish breakout (close > reference high), to BEARISH only on a bearish
\* breakout (close < reference low), to NEUTRAL only by the neutral reset;
\* a breakout in the direction already active never fires.
C2_TransitionTable ==
    [][/\ (active_direction' = BULLISH /\ active_direction # BULLISH)
            => (BarStep /\ BreakoutFired /\ CrossesUp'
                /\ last_breakout_direction' = BULLISH)
       /\ (active_direction' = BEARISH /\ active_direction # BEARISH)
            => (BarStep /\ BreakoutFired /\ CrossesDown'
                /\ last_breakout_direction' = BEARISH)
       /\ (active_direction' = NEUTRAL /\ active_direction # NEUTRAL)
            => (BarStep /\ ~BreakoutFired
                /\ BarsSinceBreakout' > neutral_reset_bars)
       /\ BreakoutFired => last_breakout_direction' # active_direction
       /\ (BarStep /\ active_direction # NEUTRAL
           /\ ((active_direction = BULLISH /\ CrossesUp')
               \/ (active_direction = BEARISH /\ CrossesDown')))
            => /\ ~BreakoutFired
               /\ UNCHANGED <<last_breakout_bar, last_breakout_direction,
                              last_signal_time>>
               /\ \A i \in 1..Len(orders') : ~IsLiquidate(orders'[i])
      ]_vars

\* C2 witness: the second breakout, BULLISH -> BEARISH, before any reset of
\* the first one was possible.
C2_Witness ==
    /\ active_direction = BEARISH
    /\ breakout_signals = 2
    /\ BreakoutOnThisBar
    /\ bar_index <= displacement + 1 + neutral_reset_bars

\* C3: a breakout fires only when none fired before or the bar's end time is
\* at least min_signal_interval after the end time of the bar of the last
\* breakout, which the breakout stamps as last_signal_time.
C3_Cooldown ==
    [][BreakoutFired =>
         /\ last_signal_time' = clock'
         /\ (breakout_signals = 0 /\ last_signal_time = None)
            \/ (breakout_signals > 0 /\ last_signal_time # None
                /\ clock' - last_signal_time >= min_signal_interval)
      ]_vars

\* C3 witness: two breakouts on consecutive bars, the second one bar but a
\* full interval after the first.
C3_Witness ==
    /\ breakout_signals = 2
    /\ BreakoutOnThisBar
    /\ bar_index = displacement + 2

\* C4: a retest fires at most once per breakout: when one fires, the retest
\* recorded before it (if any) is older than the breakout it confirms, the
\* counter grows by 1 and the recorded bar is not before the breakout's bar.
C4_OneRetestPerBreakout ==
    [][RetestFired =>
         /\ retest_signals' = retest_signals + 1
         /\ last_retest_bar = None \/ last_retest_bar < last_breakout_bar'
         /\ last_retest_bar' >= last_breakout_bar'
      ]_vars

\* C4 witness: one breakout, its retest honoured on an earlier bar, and the
\* latest bar meets the retest condition again inside the window.
C4_Witness ==
    /\ ichimoku_ready /\ HasReference
    /\ breakout_signals = 1 /\ retest_signals = 1
    /\ last_breakout_direction = BULLISH
    /\ last_retest_bar < bar_index
    /\ BarsSinceBreakout <= RetestCeiling
    /\ Current.Low <= RefHigh(Reference) + MinimumPriceVariation
    /\ Current.Close >= RefHigh(Reference)

\* C5: on a bar on which the direction is not NEUTRAL after the breakout
\* step, the bar ends NEUTRAL exactly when bar_index - last_breakout_bar
\* exceeds neutral_reset_bars, counted from the most recent breakout.
C5_ResetExactly ==
    [][(BarStep /\ (active_direction # NEUTRAL \/ BreakoutFired))
         => ((active_direction' = NEUTRAL)
               <=> (BarsSinceBreakout' > neutral_reset_bars))
      ]_vars

\* C5 witness: NEUTRAL by reset on the first bar past the threshold.
C5_Witness ==
    /\ active_direction = NEUTRAL
    /\ last_breakout_bar # None
    /\ BarsSinceBreakout = neutral_reset_bars + 1

\* C6 as stated: a retest fires only strictly inside the window.
C6_StrictWindow ==
    RetestOnThisBar =>
        /\ retest_min_delay_bars < BarsSinceBreakout
        /\ BarsSinceBreakout < RetestCeiling

\* C6 amended: a retest fires only with
\* retest_min_delay_bars <= bar_index - last_breakout_bar <= the ceiling.
C6_InclusiveWindow ==
    RetestOnThisBar =>
        /\ retest_min_delay_bars <= BarsSinceBreakout
        /\ BarsSinceBreakout <= RetestCeiling

\* C6 witness: a retest on the bar retest_min_delay_bars after the breakout.
C6_Witness ==
    /\ RetestOnThisBar
    /\ BarsSinceBreakout = retest_min_delay_bars

\* C7: a retest fires only when the bar comes back to the level of the
\* breakout it confirms: low <= L + increment and close >= L for BULLISH,
\* high >= L - increment and close <= L for BEARISH, L being the reference
\* level the breakout bar crossed.
C7_RetestAtBreakoutLevel ==
    RetestOnThisBar =>
        /\ last_breakout_direction = BULLISH =>
              /\ Current.Low <= breakout_ref_level + MinimumPriceVariation
              /\ Current.Close >= breakout_ref_level
        /\ last_breakout_direction = BEARISH =>
              /\ Current.High >= breakout_ref_level - MinimumPriceVariation
              /\ Current.Close <= breakout_ref_level

\* C8: no retest fires, and no retest order is emitted, on a bar that starts
\* with active_direction = NEUTRAL, whatever neutral_reset_bars is.
C8_NoRetestWhenNeutral ==
    [][(BarStep /\ active_direction = NEUTRAL)
         => (~RetestFired /\ UNCHANGED last_retest_bar
             /\ (~BreakoutFired => orders' = <<>>))]_vars

\* C9: a breakout sets active_direction and last_breakout_direction to its
\* direction, last_breakout_bar to bar_index, last_signal_time to the bar's
\* end time, adds 1 to breakout_signals and emits exactly a liquidate-all
\* followed by one market order of +position_size (BULLISH) or
\* -position_size (BEARISH).
C9_BreakoutEffects ==
    [][BreakoutFired =>
         /\ BarStep
         /\ \/ CrossesUp' /\ active_direction' = BULLISH
            \/ CrossesDown' /\ active_direction' = BEARISH
         /\ last_breakout_direction' = active_direction'
         /\ last_breakout_bar' = bar_index'
         /\ last_signal_time' = clock'
         /\ breakout_signals' = breakout_signals + 1
         /\ orders' = <<LiquidateAll,
                        MarketOrder(active_direction' * position_size)>>
      ]_vars

\* C9 witness: a bearish breakout with its two requests.
C9_Witness ==
    /\ BreakoutOnThisBar
    /\ active_direction = BEARISH
    /\ orders = <<LiquidateAll, MarketOrder(-position_size)>>

\* C10: a retest records last_retest_bar = bar_index, adds 1 to
\* retest_signals, leaves the breakout fields alone, and emits nothing when
\* the position is already in its direction, else exactly one market order
\* of half the position size, signed by the direction, without liquidation.
C10_RetestEffects ==
    [][RetestFired =>
         /\ BarStep
         /\ last_retest_bar' = bar_index'
         /\ retest_signals' = retest_signals + 1
         /\ UNCHANGED <<active_direction, last_breakout_bar,
                        last_breakout_direction, last_signal_time,
                        breakout_signals>>
         /\ position_read' \in Quantities
         /\ IF position_read' * last_breakout_direction > 0
            THEN orders' = <<>>
            ELSE /\ Len(orders') = 1
                 /\ orders'[1].type = "MarketOrder"
                 /\ 2 * orders'[1].target
                      = last_breakout_direction * position_size
      ]_vars

\* C10 witness: a bullish retest with a long position, confirmation only.
C10_Witness ==
    /\ RetestOnThisBar
    /\ last_breakout_direction = BULLISH
    /\ position_read = 1
    /\ orders = <<>>

\* ---------------------------------------------------- claims on the score
\* The arguments and the reference bar of the last CalculateTrendScore call.
Scored == score_call # <<>>
ScoredData == score_call[1]
ScoredInd == score_call[2]

ScoredReference == At(price_history, displacement)

Sign(x) == IF x > 0 THEN 1 ELSE IF x < 0 THEN -1 ELSE 0

\* The three directional components of a call, summed without volume
\* weighting: Tenkan against Kijun, the close against the close displacement
\* bars back, the close against the cloud.
UnscaledSum(data, ind, ref) ==
    W_TK * Sign(ind.tenkan - ind.kijun)
    + W_CH_KIJUN * Sign(data.Close - ref.Close)
    + W_CH_CLOUD * (IF data.Close > ind.senkou_a /\ data.Close > ind.senkou_b
                    THEN 1
                    ELSE IF data.Close < ind.senkou_a
                            /\ data.Close < ind.senkou_b
                         THEN -1 ELSE 0)

\* max_possible by the documented formula, in hundredths:
\* 35 + 65 * (1 + (volume_cap - 1) * volume_sensitivity).
DocumentedMaxPossible ==
    35 * 100 + 65 * (100 + (volume_cap - 1) * volume_sensitivity)

\* C11: after every call of CalculateTrendScore the stored trend_score lies
\* within [-max_possible, +max_possible], max_possible being
\* 35 + 65 * (1 + (volume_cap - 1) * volume_sensitivity), whatever the
\* direction, the indicator values and the volume (none, zero, far above the
\* cap times the average).
C11_ScoreWithinBounds ==
    Scored => /\ trend_score >= -DocumentedMaxPossible
              /\ trend_score <= DocumentedMaxPossible

\* A BULLISH engine scored with every component positive on a volume of
\* twenty times the average reaches exactly +max_possible.
C11_Witness ==
    /\ Scored
    /\ ScoredInd.vol_ready
    /\ ScoredInd.avg_vol > 0
    /\ ScoredData.Volume > volume_cap * ScoredInd.avg_vol
    /\ active_direction = BULLISH
    /\ trend_score = DocumentedMaxPossible

\* C12: a call of CalculateTrendScore on a window holding fewer than
\* displacement + 1 bars (exactly displacement bars included) returns 0.0
\* without raising, so the stored trend_score is 0.
C12_UnderfilledScoresZero ==
    (Scored /\ Len(price_history) < displacement + 1) => trend_score = 0

C14_NeutralMultiplier ==
    (Scored /\ (~use_volume \/ ~ScoredInd.vol_ready
                            \/ ScoredInd.avg_vol <= 0)) =>
        trend_score =
            100 * (active_direction * W_BIAS
                   + UnscaledSum(ScoredData, ScoredInd, ScoredReference))

\* A BULLISH engine scored on a traded bar whose ready volume average is
\* zero, all three components positive.
C14_Witness ==
    /\ Scored
    /\ ScoredInd.vol_ready
    /\ ScoredInd.avg_vol = 0
    /\ ScoredData.Volume > 0
    /\ active_direction = BULLISH
    /\ trend_score = 100 * (W_BIAS + W_TK + W_CH_KIJUN + W_CH_CLOUD)

\* ------------------------------------------------- claims on the handler
\* A bar was delivered to the handler, in warm-up or not.
BarDelivered == clock' # clock

\* The handler returns before evaluating: the host is warming up, or, after
\* the updates with this bar, the Ichimoku indicator is not ready or the
\* window holds fewer than displacement + 1 bars.
NotReadyBar ==
    /\ BarDelivered
    /\ \/ IsWarmingUp
       \/ ~ichimoku_ready'
       \/ Len(price_history') < displacement + 1

\* C15: a bar delivered in the not-ready state (warm-up, Ichimoku not ready,
\* fewer than displacement + 1 bars in the window) is not evaluated:
\* active_direction, last_breakout_bar, last_breakout_direction,
\* last_retest_bar, last_signal_time, trend_score, breakout_signals and
\* retest_signals keep their values, no order is emitted and the reference
\* read does not fail.
C15_NotReadyNoEvaluation ==
    [][NotReadyBar =>
         /\ UNCHANGED <<active_direction, last_breakout_bar,
                        last_breakout_direction, last_retest_bar,
                        last_signal_time, trend_score, breakout_signals,
                        retest_signals>>
         /\ orders' = <<>>
         /\ trend_score' # ArgumentOutOfRange]_vars

\* A processed bar that closes above the high of the bar before it while the
\* Ichimoku indicator is not ready: the cross is there, nothing has fired.
C15_Witness ==
    /\ ~IsWarmingUp
    /\ ~ichimoku_ready
    /\ CrossesUp
    /\ NoSignalYet
    /\ trend_score = 0
    /\ orders = <<>>

\* The bar displacement processed bars before the latest one, by number.
DisplacedBar == bar_log[bar_index - displacement]

\* C16: the reference bar of an evaluated bar i is bar i - displacement,
\* whatever the capacity of the window: the window's entry at index
\* displacement is that bar, the level a breakout on bar i crossed is that
\* bar's high (BULLISH) or low (BEARISH), and no breakout fires before bar
\* displacement + 1.
C16_ReferenceIsDisplacementBack ==
    /\ HasReference =>
          /\ bar_index >= displacement + 1
          /\ Reference = DisplacedBar
          /\ Current = bar_log[bar_index]
    /\ BreakoutOnThisBar =>
          /\ bar_index >= displacement + 1
          /\ active_direction = BULLISH =>
                /\ breakout_ref_level = RefHigh(DisplacedBar)
                /\ Current.Close > RefHigh(DisplacedBar)
          /\ active_direction = BEARISH =>
                /\ breakout_ref_level = RefLow(DisplacedBar)
                /\ Current.Close < RefLow(DisplacedBar)
    /\ last_breakout_bar # None => last_breakout_bar >= displacement + 1

\* The scenario: displacement + 1 bars, the last one closing above the high
\* of the first; BULLISH on bar displacement + 1, one breakout counted.
C16_Witness ==
    /\ bar_index = displacement + 1
    /\ BreakoutOnThisBar
    /\ active_direction = BULLISH
    /\ breakout_signals = 1
    /\ Current.Close > RefHigh(bar_log[1])

\* A breakout on a bar the window has already dropped bars for, in a window
\* with spare slots.
C16_WitnessSpare ==
    /\ window_capacity > displacement + 1
    /\ bar_index > window_capacity
    /\ BreakoutOnThisBar
    /\ RefHigh(DisplacedBar) # RefHigh(At(price_history, window_capacity - 1))

\* The engine as it stands, seen on a later bar on which nothing fired.
OnLaterBar(n) == [Self EXCEPT !.bar_index = n]

\* C17: the neutral reset is idempotent: CheckNeutralReset applied to the
\* state a bar ended in (same bar_index, same last_breakout_bar) changes no
\* field, and while active_direction is NEUTRAL it changes no field on any
\* later bar either, however long ago the last breakout was.
C17_ResetIdempotent ==
    /\ CheckNeutralReset(Self) = Self
    /\ active_direction = NEUTRAL =>
          \A n \in bar_index..(bar_index + neutral_reset_bars + 1) :
              CheckNeutralReset(OnLaterBar(n)) = OnLaterBar(n)

\* A bar processed after the bar of a reset: NEUTRAL, the last breakout
\* further back than the threshold plus the reset bar.
C17_Witness ==
    /\ active_direction = NEUTRAL
    /\ last_breakout_bar # None
    /\ BarsSinceBreakout > neutral_reset_bars + 1
    /\ last_breakout_direction # NEUTRAL

\* C18: retest_signals <= breakout_signals in every reachable state;
\* bar_index, breakout_signals and retest_signals never decrease; a bar
\* delivered outside warm-up advances bar_index by exactly 1, a bar delivered
\* during warm-up leaves it as it is.
C18_Counters ==
    /\ [](retest_signals <= breakout_signals)
    /\ [][/\ bar_index' >= bar_index
          /\ breakout_signals' >= breakout_signals
          /\ retest_signals' >= retest_signals
          /\ BarDelivered =>
                bar_index' = bar_index + (IF IsWarmingUp THEN 0 ELSE 1)
          /\ ~BarDelivered => bar_index' = bar_index]_vars

\* Two breakouts, each followed by its retest.
C18_Witness ==
    /\ breakout_signals = 2
    /\ retest_signals = 2
    /\ RetestOnThisBar
    /\ bar_index > 0

\* C19: in every reachable state active_direction is NEUTRAL or equal to
\* last_breakout_direction; a non-NEUTRAL active_direction comes with
\* last_breakout_bar and last_signal_time set and last_breakout_bar <=
\* bar_index; and last_breakout_direction, set by the first breakout, is
\* never NEUTRAL again, the neutral reset leaving it alone.
C19_DirectionRecords ==
    /\ active_direction \in {NEUTRAL, last_breakout_direction}
    /\ active_direction # NEUTRAL =>
          /\ last_breakout_bar # None
          /\ last_signal_time # None
          /\ last_breakout_bar <= bar_index
    /\ breakout_signals > 0 => last_breakout_direction \in {BULLISH, BEARISH}
    /\ breakout_signals = 0 => last_breakout_direction = NEUTRAL

\* After a neutral reset: NEUTRAL again, the direction of the last breakout
\* still on record.
C19_Witness ==
    /\ active_direction = NEUTRAL
    /\ last_breakout_direction = BEARISH
    /\ BarsSinceBreakout = neutral_reset_bars + 1
    /\ breakout_signals > 0

\* The bar of this step is evaluated: processed with the Ichimoku indicator
\* ready and the reference bar in the window.
EvaluatedBar ==
    /\ BarStep
    /\ ichimoku_ready'
    /\ Len(price_history') >= displacement + 1

\* The volume-weighted directional part of the last call's score.
ScoredDirectional ==
    UnscaledSum(ScoredData, ScoredInd, ScoredReference)
    * VolumeMult(ScoredData, ScoredInd)

\* C20: the score is computed before the breakout check, the retest check
\* and the neutral reset, so the trend_score stored for an evaluated bar is
\* the directional part plus the bias of the active_direction held when the
\* bar arrived: bias 0 on a breakout from NEUTRAL, the old direction's bias
\* on a flip and on the bar of a neutral reset.
C20_ScoreUsesStartDirection ==
    [][EvaluatedBar =>
         trend_score' =
             Max(-DocumentedMaxPossible,
                 Min(DocumentedMaxPossible,
                     100 * W_BIAS * active_direction + ScoredDirectional'))]_vars

\* The first breakout, fired from NEUTRAL: the engine is BULLISH and the
\* stored score carries no bias.
C20_Witness ==
    /\ BreakoutOnThisBar
    /\ breakout_signals = 1
    /\ active_direction = BULLISH
    /\ Scored
    /\ trend_score = ScoredDirectional
    /\ trend_score # 100 * W_BIAS + ScoredDirectional

\* The bar of a neutral reset: NEUTRAL, the stored score still carrying the
\* bias of the direction that was reset.
C20_WitnessReset ==
    /\ active_direction = NEUTRAL
    /\ last_breakout_direction = BULLISH
    /\ BarsSinceBreakout = neutral_reset_bars + 1
    /\ trend_score = 100 * W_BIAS + ScoredDirectional

\* ------------------------------------- claims on the Bitcoin algorithm
\* A bar delivered less than min_signal_interval after the last entry.
BitcoinCoolingBar ==
    /\ BarDelivered
    /\ last_signal_time # None
    /\ clock' - last_signal_time < Bitcoin_min_signal_interval

\* C21: in ChikouBitcoinBreakoutAlgorithm a bar ending less than
\* min_signal_interval after the last entry signal emits no order at all,
\* neither an entry nor an exit liquidation; an exit (a lone liquidation)
\* leaves last_signal_time as it was; a bullish entry is emitted only with
\* holdings <= 0 and a bearish one only with holdings >= 0, each as a
\* liquidate-all followed by one market order, and stamps last_signal_time.
C21_CooldownCoversExits ==
    [][/\ BitcoinCoolingBar =>
             /\ orders' = <<>>
             /\ UNCHANGED <<holdings, last_signal_time>>
       /\ BarDelivered =>
             \/ /\ orders' = <<>>
                /\ UNCHANGED <<holdings, last_signal_time>>
             \/ /\ orders' = <<LiquidateAll>>
                /\ holdings # 0
                /\ UNCHANGED last_signal_time
             \/ /\ orders' = <<LiquidateAll, MarketOrder(80)>>
                /\ holdings <= 0
                /\ last_signal_time' = clock'
             \/ /\ orders' = <<LiquidateAll, MarketOrder(-80)>>
                /\ holdings >= 0
                /\ last_signal_time' = clock']_vars

\* A ready bar inside the cooldown of a filled bullish entry that closes
\* below the cloud top: the long position is kept, nothing is ordered.
C21_Witness ==
    /\ last_signal_time # None
    /\ clock > last_signal_time
    /\ clock - last_signal_time < Bitcoin_min_signal_interval
    /\ bb.IsReady /\ ichimoku_ready /\ Len(chikou_momentum) >= 2
    /\ holdings > 0
    /\ price_history[1] < Max(ichimoku.SenkouA, ichimoku.SenkouB)
    /\ orders = <<>>

\* The exit once the cooldown is over: a lone liquidation, the signal time
\* still that of the entry.
C21_WitnessExit ==
    /\ orders = <<LiquidateAll>>
    /\ holdings = 0
    /\ last_signal_time # None
    /\ clock - last_signal_time >= Bitcoin_min_signal_interval

====
